---- MODULE Spec2Model ----
(***************************************************************************)
(* tablo_downloader: video file validation (validation.py) and the        *)
(* download / reconciliation procedure download_recording (tablo.py).     *)
(*                                                                         *)
(* Durations are exact numbers of an arbitrary time unit; a deviation or  *)
(* a tolerance is an exact fraction num/den (den > 0), compared by cross  *)
(* multiplication, so no rounding is involved.  An optional value         *)
(* (Python's None or a value) is a sequence of length 0 or 1.             *)
(***************************************************************************)
EXTENDS Integers, Sequences, FiniteSets, TLC

VARIABLES
    \* ---- one execution of download_recording (tablo.py) ----
    pc,                 \* position in download_recording
    args,               \* args.dry_run, args.overwrite, args.delete_originals_after_downloading
    expected_duration,  \* recording['details']['video_details']['duration'], optional
    file0,              \* the file at mp4_filename when the execution starts, optional
    file,               \* the file at mp4_filename now, optional
    validation,         \* result of validate_video_file_detailed on the existing file, optional
    response,           \* the raw line input() returned, optional
    status,             \* returncode of the ffmpeg run, optional
    post,               \* the post-download validate_video_file call, optional
    trace,              \* the external calls made so far, in order
    outcome,            \* the last outcome download_recording logged
    \* ---- one call of each validation entry point on the same input ----
    vin,                \* the input: file, ffprobe run, expected duration, tolerance
    vSimple,            \* result of validate_video_file(vin), optional
    vDetailed,          \* result of validate_video_file_detailed(vin), optional
    vProbe,             \* result of get_video_duration on vin.run, optional
    \* ---- the put.io uploader (putio_uploader.py) ----
    up_pc,              \* "none": no PutIOUploader yet; "ready"; "directory", "newest": in a run
    db,                 \* the upload tracking database file at db_path
    uploaded_files,     \* self.uploaded_files
    up_run,             \* the current or last run: dry_run, files still to visit, results
    up_log              \* the files this run has considered, and what was done with each

vars == <<pc, args, expected_duration, file0, file, validation, response,
          status, post, trace, outcome, vin, vSimple, vDetailed, vProbe,
          up_pc, db, uploaded_files, up_run, up_log>>

dlVars == <<pc, args, expected_duration, file0, file, validation, response,
            status, post, trace, outcome>>

valVars == <<vin, vSimple, vDetailed, vProbe>>

upVars == <<up_pc, db, uploaded_files, up_run, up_log>>

----------------------------------------------------------------------------
(* Bounds of the model *)

MaxExpected == 10   \* expected durations range over -1 .. MaxExpected
MaxActual == 16     \* durations printed by ffprobe range over -1 .. MaxActual
MaxTolNum == 6      \* tolerances range over -1/10 .. MaxTolNum/10
MaxAnswerLen == 2   \* the user's answer has at most this many characters
MaxFiles == 2       \* the recordings directory holds at most this many .mp4 files

----------------------------------------------------------------------------
(* Optional values and exact fractions *)

None == <<>>
Some(x) == <<x>>

Frac(n, d) == [num |-> n, den |-> d]
FracGT(a, b) == a.num * b.den > b.num * a.den
FracLE(a, b) == a.num * b.den <= b.num * a.den
Abs(x) == IF x < 0 THEN -x ELSE x

----------------------------------------------------------------------------
(* validation.py *)

MIN_FILE_SIZE_Decimal == 1000 * 1000

MIN_FILE_SIZE == 1024 * 1024

DEFAULT_TOLERANCE == Frac(1, 10)

\* One run of ffprobe, as subprocess.run presents it.
\*   kind: "timeout" (TimeoutExpired), "missing" (FileNotFoundError), "exit"
\*   returncode: the exit status when kind = "exit"
\*   stdout: json = "invalid" (not JSON), "nonobject" (JSON, not an object),
\*           "object"; format = "absent", "nonobject", "object";
\*           duration = "absent", "empty" (""), "text" (a string float()
\*           rejects, such as "N/A"), "numeral" (the decimal string of val)
Stdout(j, f, d, v) == [json |-> j, format |-> f, duration |-> d, val |-> v]
Run(k, rc, out) == [kind |-> k, returncode |-> rc, stdout |-> out]

Returned_ZeroForUnknown(v) ==
    [raised |-> FALSE, value |-> IF v = None THEN Some(0) ELSE v]

Returned(v) == [raised |-> FALSE, value |-> v]
Raised == [raised |-> TRUE, value |-> None]

get_video_duration_MissingUncaught(run) ==
    IF run.kind = "timeout" THEN Returned(None)
    ELSE IF run.kind = "missing" THEN Raised
    ELSE IF run.returncode # 0 THEN Returned(None)
    ELSE IF run.stdout.json = "invalid" THEN Returned(None)
    ELSE IF run.stdout.json # "object" THEN Raised
    ELSE IF run.stdout.format = "absent" THEN Returned(None)
    ELSE IF run.stdout.format # "object" THEN Raised
    ELSE IF run.stdout.duration = "absent" THEN Returned(None)
    ELSE IF run.stdout.duration = "empty" THEN Returned(None)
    ELSE IF run.stdout.duration = "text" THEN Returned(None)
    ELSE Returned(Some(run.stdout.val))

get_video_duration(run) ==
    IF run.kind = "timeout" THEN Returned(None)
    ELSE IF run.kind = "missing" THEN Returned(None)
    ELSE IF run.returncode # 0 THEN Returned(None)
    ELSE IF run.stdout.json = "invalid" THEN Returned(None)
    ELSE IF run.stdout.json # "object" THEN Raised
    ELSE IF run.stdout.format = "absent" THEN Returned(None)
    ELSE IF run.stdout.format # "object" THEN Raised
    ELSE IF run.stdout.duration = "absent" THEN Returned(None)
    ELSE IF run.stdout.duration = "empty" THEN Returned(None)
    ELSE IF run.stdout.duration = "text" THEN Returned(None)
    ELSE Returned(Some(run.stdout.val))

os_path_exists(f) == f # None
os_path_getsize(f) == f[1].size

HasExpected_NotNone(expected) == expected # None

HasExpected(expected) == expected # None /\ expected[1] > 0

Deviation_Signed(actual, expected) == Frac(actual - expected, expected)

Deviation(actual, expected) == Frac(Abs(actual - expected), expected)

DeviationExceeds_Inclusive(deviation, tolerance) == ~FracGT(tolerance, deviation)

DeviationExceeds(deviation, tolerance) == FracGT(deviation, tolerance)

SimpleResult(r, v, why, s, p) ==
    [raised |-> r, is_valid |-> v, reason |-> why, sized |-> s, probed |-> p]

validate_video_file(f, run, expected, duration_tolerance) ==
    IF ~os_path_exists(f)
    THEN SimpleResult(FALSE, FALSE, "File does not exist", FALSE, FALSE)
    ELSE IF os_path_getsize(f) < MIN_FILE_SIZE
    THEN SimpleResult(FALSE, FALSE, "File too small", TRUE, FALSE)
    ELSE LET actual_duration == get_video_duration(run) IN
         IF actual_duration.raised
         THEN SimpleResult(TRUE, FALSE, "", TRUE, TRUE)
         ELSE IF actual_duration.value = None
         THEN SimpleResult(FALSE, FALSE,
                  "Cannot determine video duration (possibly corrupted)", TRUE, TRUE)
         ELSE IF /\ HasExpected(expected)
                 /\ DeviationExceeds(Deviation(actual_duration.value[1], expected[1]),
                                     duration_tolerance)
         THEN SimpleResult(FALSE, FALSE, "Duration mismatch", TRUE, TRUE)
         ELSE SimpleResult(FALSE, TRUE, "Valid", TRUE, TRUE)

DetailedResult_ActualEcho(r, v, why, actual, expected, dev, s, p) ==
    [raised |-> r, is_valid |-> v, reason |-> why, actual_duration |-> expected,
     expected_duration |-> expected, deviation |-> dev, sized |-> s, probed |-> p]

DetailedResult(r, v, why, actual, expected, dev, s, p) ==
    [raised |-> r, is_valid |-> v, reason |-> why, actual_duration |-> actual,
     expected_duration |-> expected, deviation |-> dev, sized |-> s, probed |-> p]

validate_video_file_detailed(f, run, expected) ==
    IF ~os_path_exists(f)
    THEN DetailedResult(FALSE, FALSE, "File does not exist", None, expected, None,
                        FALSE, FALSE)
    ELSE IF os_path_getsize(f) < MIN_FILE_SIZE
    THEN DetailedResult(FALSE, FALSE, "File too small", None, expected, None,
                        TRUE, FALSE)
    ELSE LET actual_duration == get_video_duration(run) IN
         IF actual_duration.raised
         THEN DetailedResult(TRUE, FALSE, "", None, expected, None, TRUE, TRUE)
         ELSE IF actual_duration.value = None
         THEN DetailedResult(FALSE, FALSE,
                  "Cannot determine video duration (possibly corrupted)",
                  None, expected, None, TRUE, TRUE)
         ELSE IF HasExpected(expected)
         THEN DetailedResult(FALSE, TRUE, "Duration: actual vs expected",
                  actual_duration.value, expected,
                  Some(Deviation(actual_duration.value[1], expected[1])), TRUE, TRUE)
         ELSE DetailedResult(FALSE, TRUE, "Duration", actual_duration.value,
                  expected, None, TRUE, TRUE)

----------------------------------------------------------------------------
(* The input domains *)

Sizes == {0, MIN_FILE_SIZE - 1, MIN_FILE_SIZE}
Files == {None} \cup {Some([size |-> s]) : s \in Sizes}

ExpectedDurations == {None} \cup {Some(e) : e \in -1 .. MaxExpected}

NoOutput == Stdout("invalid", "absent", "absent", 0)
FailedRuns ==
    {Run("timeout", 0, NoOutput), Run("missing", 0, NoOutput), Run("exit", 1, NoOutput),
     Run("exit", 1, Stdout("object", "object", "numeral", MaxExpected)),
     Run("exit", 0, NoOutput),
     Run("exit", 0, Stdout("nonobject", "absent", "absent", 0)),
     Run("exit", 0, Stdout("object", "absent", "absent", 0)),
     Run("exit", 0, Stdout("object", "nonobject", "absent", 0)),
     Run("exit", 0, Stdout("object", "object", "absent", 0)),
     Run("exit", 0, Stdout("object", "object", "empty", 0)),
     Run("exit", 0, Stdout("object", "object", "text", 0))}
DurationRuns ==
    {Run("exit", 0, Stdout("object", "object", "numeral", a)) : a \in -1 .. MaxActual}
ProbeRuns == FailedRuns \cup DurationRuns

Tolerances == {Frac(n, 10) : n \in -1 .. MaxTolNum}

----------------------------------------------------------------------------
(* The two validation entry points called on one input *)

\* No uploader has been constructed.
NoUploader ==
    /\ up_pc = "none"
    /\ db = [kind |-> "missing", uploaded_files |-> {}]
    /\ uploaded_files = {}
    /\ up_run = [dry_run |-> FALSE, queue |-> <<>>,
                 results |-> [uploaded |-> <<>>, skipped |-> <<>>, failed |-> <<>>]]
    /\ up_log = <<>>

Idle ==
    /\ pc = "idle"
    /\ args = [dry_run |-> FALSE, overwrite |-> FALSE,
               delete_originals_after_downloading |-> FALSE]
    /\ expected_duration = None
    /\ file0 = None
    /\ file = None
    /\ validation = None
    /\ response = None
    /\ status = None
    /\ post = None
    /\ trace = <<>>
    /\ outcome = ""

InitValidate ==
    /\ Idle
    /\ NoUploader
    /\ vin \in [file : Files, run : ProbeRuns, expected : ExpectedDurations,
                 tolerance : Tolerances]
    /\ vSimple = None
    /\ vDetailed = None
    /\ vProbe = None

CallValidate ==
    /\ vSimple = None
    /\ vSimple' = Some(validate_video_file(vin.file, vin.run, vin.expected,
                                           vin.tolerance))
    /\ UNCHANGED <<vin, vDetailed, vProbe>>
    /\ UNCHANGED dlVars
    /\ UNCHANGED upVars

CallValidateDetailed ==
    /\ vDetailed = None
    /\ vDetailed' = Some(validate_video_file_detailed(vin.file, vin.run, vin.expected))
    /\ UNCHANGED <<vin, vSimple, vProbe>>
    /\ UNCHANGED dlVars
    /\ UNCHANGED upVars

CallGetVideoDuration ==
    /\ vProbe = None
    /\ vProbe' = Some(get_video_duration(vin.run))
    /\ UNCHANGED <<vin, vSimple, vDetailed>>
    /\ UNCHANGED dlVars
    /\ UNCHANGED upVars

NextValidate == CallValidate \/ CallValidateDetailed \/ CallGetVideoDuration

SpecValidate == InitValidate /\ [][NextValidate]_vars

----------------------------------------------------------------------------
(* tablo.py: download_recording *)

KEEP_THRESHOLD == Frac(10, 100)
INCOMPLETE_THRESHOLD == Frac(50, 100)

\* A line typed by the user: a sequence of characters.
Chars == {"y", "Y", "n", "e", " "}
Answers == UNION {[1 .. n -> Chars] : n \in 0 .. MaxAnswerLen}

RECURSIVE str_lstrip(_)
str_lstrip(s) == IF s # <<>> /\ Head(s) = " " THEN str_lstrip(Tail(s)) ELSE s

RECURSIVE str_rstrip(_)
str_rstrip(s) ==
    IF s # <<>> /\ s[Len(s)] = " " THEN str_rstrip(SubSeq(s, 1, Len(s) - 1)) ELSE s

str_strip(s) == str_rstrip(str_lstrip(s))

char_lower(c) == IF c = "Y" THEN "y" ELSE c
str_lower(s) == [i \in 1 .. Len(s) |-> char_lower(s[i])]

os_remove_Noop(f) == [raised |-> FALSE, file |-> f]

\* os.remove: FileNotFoundError when there is no file.
os_remove(f) == [raised |-> f = None, file |-> None]

OverwriteRequested_Ignored(a) == FALSE

OverwriteRequested(a) == a.overwrite

IsCorrupted_Never(v) == FALSE

IsCorrupted(v) == ~v.is_valid

WithinKeepBand_Strict(v) ==
    v.deviation = None \/ ~FracLE(KEEP_THRESHOLD, v.deviation[1])

WithinKeepBand(v) == v.deviation = None \/ FracLE(v.deviation[1], KEEP_THRESHOLD)

ClearlyIncomplete_Whole(v) == FracGT(v.deviation[1], Frac(1, 1))

ClearlyIncomplete(v) == FracGT(v.deviation[1], INCOMPLETE_THRESHOLD)

UserConfirms_Raw(raw) == raw = <<"y">>

UserConfirms(raw) == str_lower(str_strip(raw)) = <<"y">>

TranscodeSucceeded_NonNegative(rc) == rc >= 0

TranscodeSucceeded(rc) == rc = 0

DeleteOriginals_Always(a) == TRUE

DeleteOriginals(a) == a.delete_originals_after_downloading

\* Exit statuses of ffmpeg: success, failure, killed by a signal.
ReturnCodes == {0, 1, -9}

Args == [dry_run : BOOLEAN, overwrite : BOOLEAN,
         delete_originals_after_downloading : BOOLEAN]

Init ==
    /\ pc = "start"
    /\ args \in Args
    /\ expected_duration \in ExpectedDurations
    /\ file0 \in Files
    /\ file = file0
    /\ validation = None
    /\ response = None
    /\ status = None
    /\ post = None
    /\ trace = <<>>
    /\ outcome = ""
    /\ vin = [file |-> None, run |-> Run("missing", 0, NoOutput), expected |-> None,
              tolerance |-> DEFAULT_TOLERANCE]
    /\ vSimple = None
    /\ vDetailed = None
    /\ vProbe = None
    /\ NoUploader

Return(why) == pc' = "returned" /\ outcome' = why

\* The calls one validation makes, for the trace.
Calls(entry, result) ==
    <<entry>> \o (IF result.probed THEN <<"get_video_duration">> ELSE <<>>)

\* Lines 209-248: the recordings database, the recording, its playlist, its title.
Lookup ==
    /\ pc = "start"
    /\ \E have_db, found, playlist_ok, titled \in BOOLEAN :
          IF ~have_db THEN Return("no recordings database")
          ELSE IF ~found THEN Return("recording not found")
          ELSE IF ~playlist_ok THEN Return("playlist failed")
          ELSE IF ~titled THEN Return("no title")
          ELSE pc' = "dry_run" /\ UNCHANGED outcome
    /\ UNCHANGED <<args, expected_duration, file0, file, validation, response,
                   status, post, trace>>
    /\ UNCHANGED valVars
    /\ UNCHANGED upVars

DryRun_Ignored ==
    /\ pc = "dry_run"
    /\ pc' = "existing"
    /\ UNCHANGED <<args, expected_duration, file0, file, validation, response,
                   status, post, trace, outcome>>
    /\ UNCHANGED valVars
    /\ UNCHANGED upVars

\* Lines 250-262.
DryRun ==
    /\ pc = "dry_run"
    /\ IF args.dry_run THEN Return("dry run")
       ELSE pc' = "existing" /\ UNCHANGED outcome
    /\ UNCHANGED <<args, expected_duration, file0, file, validation, response,
                   status, post, trace>>
    /\ UNCHANGED valVars
    /\ UNCHANGED upVars

\* Lines 264-300: what to do with a file already at mp4_filename, up to the
\* point where input() blocks.
CheckExisting ==
    /\ pc = "existing"
    /\ IF ~os_path_exists(file)
       THEN /\ pc' = "playlist"
            /\ UNCHANGED <<file, validation, trace, outcome>>
       ELSE IF OverwriteRequested(args)
       THEN /\ file' = os_remove(file).file
            /\ trace' = Append(trace, "os.remove")
            /\ pc' = "playlist"
            /\ UNCHANGED <<validation, outcome>>
       ELSE \E run \in ProbeRuns :
              LET v == validate_video_file_detailed(file, run, expected_duration)
                  called == trace \o Calls("validate_video_file_detailed", v)
              IN  /\ validation' = Some(v)
                  /\ IF v.raised
                     THEN /\ pc' = "raised"
                          /\ trace' = called
                          /\ UNCHANGED <<file, outcome>>
                     ELSE IF IsCorrupted(v)
                     THEN /\ file' = os_remove(file).file
                          /\ trace' = Append(called, "os.remove")
                          /\ pc' = "playlist"
                          /\ outcome' = "removed corrupted file"
                     ELSE IF WithinKeepBand(v)
                     THEN /\ Return("existing download is valid")
                          /\ trace' = called
                          /\ UNCHANGED file
                     ELSE IF ClearlyIncomplete(v)
                     THEN /\ file' = os_remove(file).file
                          /\ trace' = Append(called, "os.remove")
                          /\ pc' = "playlist"
                          /\ outcome' = "removed incomplete file"
                     ELSE /\ pc' = "input"
                          /\ trace' = Append(called, "input")
                          /\ UNCHANGED <<file, outcome>>
    /\ UNCHANGED <<args, expected_duration, file0, response, status, post>>
    /\ UNCHANGED valVars
    /\ UNCHANGED upVars

\* Lines 300-306: input() returns a line.
Answer ==
    /\ pc = "input"
    /\ \E raw \in Answers :
          /\ response' = Some(raw)
          /\ IF UserConfirms(raw)
             THEN /\ file' = os_remove(file).file
                  /\ trace' = Append(trace, "os.remove")
                  /\ pc' = "playlist"
                  /\ outcome' = "removed per user request"
             ELSE /\ Return("kept per user request")
                  /\ UNCHANGED <<file, trace>>
    /\ UNCHANGED <<args, expected_duration, file0, validation, status, post>>
    /\ UNCHANGED valVars
    /\ UNCHANGED upVars

\* Line 300: input() raises EOFError when standard input is closed.
AnswerEOF ==
    /\ pc = "input"
    /\ pc' = "raised"
    /\ UNCHANGED <<args, expected_duration, file0, file, validation, response,
                   status, post, trace, outcome>>
    /\ UNCHANGED valVars
    /\ UNCHANGED upVars

\* Lines 308-311.
FetchPlaylist ==
    /\ pc = "playlist"
    /\ trace' = Append(trace, "playlist_m3u")
    /\ \E is_str \in BOOLEAN :
          IF is_str THEN pc' = "ffmpeg" /\ UNCHANGED outcome
          ELSE Return("playlist_m3u error")
    /\ UNCHANGED <<args, expected_duration, file0, file, validation, response,
                   status, post>>
    /\ UNCHANGED valVars
    /\ UNCHANGED upVars

\* Lines 313-329: ffmpeg runs and leaves nothing, or some file, at mp4_filename.
RunFfmpeg ==
    /\ pc = "ffmpeg"
    /\ \E returncode \in ReturnCodes, written \in Files :
          /\ status' = Some(returncode)
          /\ file' = written
    /\ trace' = Append(trace, "ffmpeg")
    /\ pc' = "downloaded"
    /\ UNCHANGED <<args, expected_duration, file0, validation, response, post,
                   outcome>>
    /\ UNCHANGED valVars
    /\ UNCHANGED upVars

\* Lines 331-355.
AfterFfmpeg ==
    /\ pc = "downloaded"
    /\ IF TranscodeSucceeded(status[1])
       THEN \E run \in ProbeRuns :
              LET r == validate_video_file(file, run, expected_duration,
                                           DEFAULT_TOLERANCE)
                  called == trace \o Calls("validate_video_file", r)
              IN  /\ post' = Some([expected_duration |-> expected_duration,
                                   duration_tolerance |-> DEFAULT_TOLERANCE,
                                   result |-> r])
                  /\ IF r.raised
                     THEN /\ pc' = "raised"
                          /\ trace' = called
                          /\ UNCHANGED <<file, outcome>>
                     ELSE IF r.is_valid
                     THEN /\ Return("downloaded and validated")
                          /\ trace' = IF DeleteOriginals(args)
                                      THEN Append(called, "delete_recording")
                                      ELSE called
                          /\ UNCHANGED file
                     ELSE /\ file' = os_remove(file).file
                          /\ trace' = Append(called, "os.remove")
                          /\ outcome' = "validation failed"
                          /\ pc' = IF os_remove(file).raised THEN "raised"
                                   ELSE "returned"
       ELSE /\ Return("ffmpeg failed")
            /\ IF os_path_exists(file)
               THEN /\ file' = os_remove(file).file
                    /\ trace' = Append(trace, "os.remove")
               ELSE UNCHANGED <<file, trace>>
            /\ UNCHANGED post
    /\ UNCHANGED <<args, expected_duration, file0, validation, response, status>>
    /\ UNCHANGED valVars
    /\ UNCHANGED upVars

Next ==
    \/ Lookup
    \/ DryRun
    \/ CheckExisting
    \/ Answer
    \/ AnswerEOF
    \/ FetchPlaylist
    \/ RunFfmpeg
    \/ AfterFfmpeg

Spec == Init /\ [][Next]_vars

----------------------------------------------------------------------------
(* putio_uploader.py: PutIOUploader *)

\* A path is its name in the recordings directory: a stem and a suffix.  The
\* directory can hold one upper-case video file, MaxFiles .mp4 files, a text
\* file and a subdirectory named like a video.
DirEntries ==
    {[stem |-> 0, suffix |-> ".MKV", is_file |-> TRUE]}
        \cup {[stem |-> i, suffix |-> ".mp4", is_file |-> TRUE] : i \in 1..MaxFiles}
        \cup {[stem |-> MaxFiles + 1, suffix |-> ".txt", is_file |-> TRUE],
              [stem |-> MaxFiles + 2, suffix |-> ".mp4", is_file |-> FALSE]}

\* The recordings directory a run is pointed at: missing, or a set of entries.
Directories ==
    {[exists |-> FALSE, entries |-> {}]}
        \cup {[exists |-> TRUE, entries |-> l] : l \in SUBSET DirEntries}

\* str(filepath.relative_to(directory)) of a direct child: its name.
rel_path(filepath) == [stem |-> filepath.stem, suffix |-> filepath.suffix]

RelPaths == {rel_path(f) : f \in DirEntries}

suffix_lower(suffix) == IF suffix = ".MKV" THEN ".mkv" ELSE suffix

video_extensions == {".mp4", ".mkv", ".avi", ".mov", ".m4v", ".mpg", ".mpeg"}

is_video_file(filepath) == suffix_lower(filepath.suffix) \in video_extensions

\* The files the two runs collect from directory.iterdir().
video_files(listing) == {f \in listing : f.is_file /\ is_video_file(f)}

\* sorted(video_files): paths in name order; the names differ in their stems.
RECURSIVE sorted(_)
sorted(S) ==
    IF S = {} THEN <<>>
    ELSE LET least == CHOOSE f \in S : \A g \in S : f.stem <= g.stem
         IN  <<least>> \o sorted(S \ {least})

\* The tracking database file: missing, unreadable as JSON, or a list of paths.
DbFiles ==
    {[kind |-> "missing", uploaded_files |-> {}],
     [kind |-> "corrupt", uploaded_files |-> {}]}
        \cup {[kind |-> "valid", uploaded_files |-> S] :
                 S \in SUBSET {p \in RelPaths : p.suffix # ".txt"}}

load_upload_db(d) == IF d.kind = "valid" THEN d.uploaded_files ELSE {}

\* how: "written"; "not opened" (mkdir or open raised, the file is as before);
\* "truncated" (open(..., 'w') emptied the file and json.dump raised).
SaveOutcomes == {"written", "not opened", "truncated"}

save_upload_db(d, ledger, how) ==
    IF how = "written" THEN [kind |-> "valid", uploaded_files |-> ledger]
    ELSE IF how = "truncated" THEN [kind |-> "corrupt", uploaded_files |-> {}]
    ELSE d

\* One attempt to send a file: what stat, requests.post and put.io answer.
Attempt(raises, st_size, status_code, result_status) ==
    [raises |-> raises, st_size |-> st_size, status_code |-> status_code,
     status |-> result_status]

Attempts ==
    {Attempt("stat", 0, 0, ""), Attempt("", 0, 0, ""), Attempt("post", 1, 0, ""),
     Attempt("", 1, 500, ""), Attempt("", 1, 200, "ERROR"), Attempt("", 1, 200, "OK")}

upload_file(attempt) ==
    IF attempt.raises = "stat" THEN FALSE
    ELSE IF attempt.st_size = 0 THEN FALSE
    ELSE IF attempt.raises = "post" THEN FALSE
    ELSE IF attempt.status_code = 200 THEN attempt.status = "OK"
    ELSE FALSE

AlreadyUploaded_Never(rel, ledger) == FALSE

\* "if rel_path in self.uploaded_files"
AlreadyUploaded(rel, ledger) == rel \in ledger

EmptyResults == [uploaded |-> <<>>, skipped |-> <<>>, failed |-> <<>>]

\* The body both runs apply to one video file: skip, pretend, or upload and
\* record.  called/ok tell whether upload_file ran and what it returned.
Consider(rel, ledger, d, results, dry_run, attempt, how) ==
    IF AlreadyUploaded(rel, ledger)
    THEN [uploaded_files |-> ledger, db |-> d, called |-> FALSE, ok |-> FALSE,
          results |-> [results EXCEPT !.skipped = Append(@, rel)]]
    ELSE IF dry_run
    THEN [uploaded_files |-> ledger, db |-> d, called |-> FALSE, ok |-> FALSE,
          results |-> [results EXCEPT !.uploaded = Append(@, rel)]]
    ELSE IF upload_file(attempt)
    THEN [uploaded_files |-> ledger \cup {rel},
          db |-> save_upload_db(d, ledger \cup {rel}, how),
          called |-> TRUE, ok |-> TRUE,
          results |-> [results EXCEPT !.uploaded = Append(@, rel)]]
    ELSE [uploaded_files |-> ledger, db |-> d, called |-> TRUE, ok |-> FALSE,
          results |-> [results EXCEPT !.failed = Append(@, rel)]]

\* The log entry of one considered file: was its path in the ledger (in memory
\* or on disk) when the run reached it, and was upload_file called for it.
Seen(rel, step) ==
    [path |-> rel, in_ledger |-> rel \in uploaded_files \cup load_upload_db(db),
     called |-> step.called, ok |-> step.ok]

Apply(rel, step) ==
    /\ uploaded_files' = step.uploaded_files
    /\ db' = step.db
    /\ up_log' = Append(up_log, Seen(rel, step))

DownloadIdle ==
    /\ Idle
    /\ vin = [file |-> None, run |-> Run("missing", 0, NoOutput), expected |-> None,
              tolerance |-> DEFAULT_TOLERANCE]
    /\ vSimple = None
    /\ vDetailed = None
    /\ vProbe = None

InitUpload ==
    /\ DownloadIdle
    /\ up_pc = "none"
    /\ db \in DbFiles
    /\ uploaded_files = {}
    /\ up_run = [dry_run |-> FALSE, queue |-> <<>>, results |-> EmptyResults]
    /\ up_log = <<>>

\* main() builds a PutIOUploader in every process; __init__ loads the ledger.
Construct ==
    /\ up_pc \in {"none", "ready"}
    /\ up_pc' = "ready"
    /\ uploaded_files' = load_upload_db(db)
    /\ UNCHANGED <<db, up_run, up_log>>
    /\ UNCHANGED <<dlVars, valVars>>

\* upload_newest up to the ledger check: the directory check, the listing and
\* the choice of the newest file.  The modification times are the file
\* system's: any of the video files can be the newest.
upload_newest ==
    /\ up_pc = "ready"
    /\ \E directory \in Directories, dry_run \in BOOLEAN :
          LET found == video_files(directory.entries)
          IN  IF ~directory.exists \/ found = {}
              THEN /\ up_run' = [dry_run |-> dry_run, queue |-> <<>>,
                                 results |-> EmptyResults]
                   /\ up_pc' = "ready"
              ELSE \E newest_file \in found :
                     /\ up_run' = [dry_run |-> dry_run, queue |-> <<newest_file>>,
                                   results |-> EmptyResults]
                     /\ up_pc' = "newest"
    /\ up_log' = <<>>
    /\ UNCHANGED <<uploaded_files, db>>
    /\ UNCHANGED <<dlVars, valVars>>

\* The rest of upload_newest: skip, pretend, or upload and record; return.
upload_newest_file ==
    /\ up_pc = "newest"
    /\ \E attempt \in Attempts, how \in SaveOutcomes :
          LET rel == rel_path(Head(up_run.queue))
              step == Consider(rel, uploaded_files, db, up_run.results,
                               up_run.dry_run, attempt, how)
          IN  /\ up_run' = [up_run EXCEPT !.queue = Tail(@), !.results = step.results]
              /\ Apply(rel, step)
    /\ up_pc' = "ready"
    /\ UNCHANGED <<dlVars, valVars>>

\* upload_directory up to its loop: the directory check and the listing.
upload_directory ==
    /\ up_pc = "ready"
    /\ \E directory \in Directories, dry_run \in BOOLEAN :
          /\ up_run' = [dry_run |-> dry_run,
                        queue |-> IF directory.exists
                                  THEN sorted(video_files(directory.entries))
                                  ELSE <<>>,
                        results |-> EmptyResults]
          /\ up_pc' = IF directory.exists THEN "directory" ELSE "ready"
    /\ up_log' = <<>>
    /\ UNCHANGED <<uploaded_files, db>>
    /\ UNCHANGED <<dlVars, valVars>>

\* One iteration of "for filepath in sorted(video_files)".
upload_directory_loop ==
    /\ up_pc = "directory"
    /\ up_run.queue # <<>>
    /\ \E attempt \in Attempts, how \in SaveOutcomes :
          LET rel == rel_path(Head(up_run.queue))
              step == Consider(rel, uploaded_files, db, up_run.results,
                               up_run.dry_run, attempt, how)
          IN  /\ up_run' = [up_run EXCEPT !.queue = Tail(@), !.results = step.results]
              /\ Apply(rel, step)
    /\ UNCHANGED up_pc
    /\ UNCHANGED <<dlVars, valVars>>

upload_directory_return ==
    /\ up_pc = "directory"
    /\ up_run.queue = <<>>
    /\ up_pc' = "ready"
    /\ UNCHANGED <<db, uploaded_files, up_run, up_log>>
    /\ UNCHANGED <<dlVars, valVars>>

NextUpload ==
    \/ Construct
    \/ upload_newest
    \/ upload_newest_file
    \/ upload_directory
    \/ upload_directory_loop
    \/ upload_directory_return

SpecUpload == InitUpload /\ [][NextUpload]_vars

----------------------------------------------------------------------------
(* Properties of the validation entry points (checked under SpecValidate) *)

BothCalled == vSimple # None /\ vDetailed # None
BothReturned == BothCalled /\ ~vSimple[1].raised /\ ~vDetailed[1].raised
DefaultTolerance == vin.tolerance = DEFAULT_TOLERANCE

\* C1 as stated: on identical inputs, with the default tolerance 0.10,
\* validate_video_file and validate_video_file_detailed return the same
\* validity boolean.
C1_SameValidity ==
    (BothReturned /\ DefaultTolerance)
        => vSimple[1].is_valid = vDetailed[1].is_valid

\* C1 amended: with the default tolerance the two entry points return the same
\* validity boolean whenever the detailed result has no deviation or a
\* deviation <= 0.10; when the deviation exceeds 0.10 the simplified entry
\* point returns False and the detailed one returns True.
C1_SameValidityUnlessMismatch ==
    (BothReturned /\ DefaultTolerance)
        => IF /\ vDetailed[1].deviation # None
              /\ vDetailed[1].deviation[1].num * 10 > vDetailed[1].deviation[1].den
           THEN ~vSimple[1].is_valid /\ vDetailed[1].is_valid
           ELSE vSimple[1].is_valid = vDetailed[1].is_valid

C1_Witness ==
    /\ BothReturned /\ DefaultTolerance
    /\ vDetailed[1].deviation # None
    /\ vDetailed[1].deviation[1].num * 10 > vDetailed[1].deviation[1].den
    /\ ~vSimple[1].is_valid /\ vDetailed[1].is_valid

\* The case C2 is about: the file exists, has at least 1,048,576 bytes, ffprobe
\* printed a duration, and the expected duration is > 0.
DurationCompared ==
    /\ vin.file # None /\ vin.file[1].size >= 1048576
    /\ vin.run \in DurationRuns
    /\ vin.expected # None /\ vin.expected[1] > 0

\* C2: for an existing file of adequate size with a known duration `actual`
\* and expected > 0, validate_video_file returns validity = true iff
\* |actual - expected| / expected <= tolerance (equality is valid), and a file
\* valid under tolerance t is valid under every tolerance t2 >= t.
C2_ValidIffWithinTolerance ==
    (vSimple # None /\ DurationCompared)
        => LET a == vin.run.stdout.val
               e == vin.expected[1]
               t == vin.tolerance
           IN  /\ ~vSimple[1].raised
               /\ vSimple[1].is_valid <=> (Abs(a - e) * t.den <= t.num * e)
               /\ \A t2 \in Tolerances :
                      (vSimple[1].is_valid /\ t.num * t2.den <= t2.num * t.den)
                          => validate_video_file(vin.file, vin.run, vin.expected,
                                                 t2).is_valid

C2_Witness ==
    /\ vSimple # None /\ DurationCompared
    /\ vin.run.stdout.val < vin.expected[1]
    /\ Abs(vin.run.stdout.val - vin.expected[1]) * vin.tolerance.den
           = vin.tolerance.num * vin.expected[1]
    /\ vSimple[1].is_valid

----------------------------------------------------------------------------
(* Properties of download_recording (checked under Spec) *)

Has(e) == \E i \in 1 .. Len(trace) : trace[i] = e
Count(e) == Cardinality({i \in 1 .. Len(trace) : trace[i] = e})
First(e) == CHOOSE i \in 1 .. Len(trace) : trace[i] = e /\ \A j \in 1 .. i - 1 : trace[j] # e

Finished == pc \in {"returned", "raised"}

\* The execution got past the lookup and the dry-run exit and has dealt
\* with whatever was at mp4_filename.
PastExisting ==
    \/ pc \in {"input", "playlist", "ffmpeg", "downloaded"}
    \/ /\ Finished
       /\ outcome \notin {"no recordings database", "recording not found",
                           "playlist failed", "no title", "dry run"}

\* The download goes on: control is at, or has passed, the playlist fetch.
Proceeds == pc = "playlist" \/ Has("playlist_m3u")

Validated == validation # None /\ ~validation[1].raised
Dev == validation[1].deviation[1]

\* The answer is a single y or Y, possibly surrounded by spaces.
SaysYes(raw) ==
    \E i \in 1 .. Len(raw) :
        /\ raw[i] \in {"y", "Y"}
        /\ \A j \in 1 .. Len(raw) : j # i => raw[j] = " "

\* C3 as stated: in the 10-50% deviation band the user is prompted; the
\* answer "y" removes the existing file and the download proceeds, and every
\* other answer keeps the file untouched and returns without running ffmpeg.
C3_OnlyLiteralY ==
    response # None
        => IF response[1] = <<"y">>
           THEN Count("os.remove") >= 1 /\ Proceeds
           ELSE file = file0 /\ pc = "returned" /\ ~Has("ffmpeg")

\* C3 amended: in download_recording (not dry-run), when the target file
\* exists, overwrite is not requested and the validation result is valid with
\* 0.10 < deviation <= 0.50, the user is prompted (and only then); if the
\* answer, with surrounding whitespace stripped and lower-cased, is "y" the
\* existing file is removed and the download proceeds, and for any other
\* answer the file is kept untouched and the operation returns without
\* invoking the transcoding tool.
C3_PromptBand ==
    /\ (Validated /\ validation[1].is_valid /\ validation[1].deviation # None
           /\ Dev.num * 10 > Dev.den /\ Dev.num * 2 <= Dev.den)
          => Has("input")
    /\ Has("input")
          => /\ ~args.dry_run /\ ~args.overwrite /\ file0 # None
             /\ Validated /\ validation[1].is_valid
             /\ validation[1].deviation # None
             /\ Dev.num * 10 > Dev.den /\ Dev.num * 2 <= Dev.den
             /\ Count("input") = 1
    /\ response # None
          => /\ Has("input")
             /\ IF SaysYes(response[1])
                THEN /\ Count("os.remove") >= 1 /\ Proceeds
                     /\ pc = "playlist" => file = None
                ELSE /\ file = file0 /\ pc = "returned"
                     /\ ~Has("ffmpeg") /\ ~Has("os.remove")

C3_Witness ==
    /\ response = Some(<<" ", "Y">>)
    /\ pc = "playlist"
    /\ file = None /\ file0 # None
    /\ Dev.num * 2 = Dev.den

\* C4: in download_recording (not dry-run), when the target file exists,
\* overwrite is not requested and validation yields validity = true with the
\* deviation absent or <= 0.10, the file is kept: it is not removed, the user
\* is not prompted, ffmpeg is never invoked and the remote recording is not
\* deleted.
C4_Keep ==
    (/\ Validated /\ validation[1].is_valid
     /\ \/ validation[1].deviation = None
        \/ Dev.num * 10 <= Dev.den)
        => /\ ~args.dry_run /\ ~args.overwrite /\ file0 # None
           /\ pc = "returned"
           /\ file = file0
           /\ ~Has("os.remove") /\ ~Has("input") /\ response = None
           /\ ~Has("playlist_m3u") /\ ~Has("ffmpeg") /\ status = None
           /\ ~Has("delete_recording")

C4_Witness ==
    /\ Validated /\ validation[1].is_valid
    /\ validation[1].deviation # None
    /\ Dev.num * 10 = Dev.den
    /\ pc = "returned" /\ file = file0
    /\ args.delete_originals_after_downloading

\* C5: in download_recording (not dry-run), when the target file exists and
\* overwrite is requested, the existing file is removed and the download
\* proceeds whatever the file is, and neither the validator nor the duration
\* prober nor the user prompt is invoked before the removal.
C5_Overwrite ==
    (PastExisting /\ file0 # None /\ args.overwrite)
        => /\ trace # <<>> /\ trace[1] = "os.remove"
           /\ validation = None /\ response = None
           /\ ~Has("validate_video_file_detailed") /\ ~Has("input")
           /\ Has("get_video_duration") => First("ffmpeg") < First("get_video_duration")
           /\ Proceeds
           /\ pc = "playlist" => file = None

C5_Witness ==
    /\ PastExisting /\ args.overwrite
    /\ file0 # None /\ file0[1].size >= 1048576
    /\ pc = "playlist" /\ file = None
    /\ trace = <<"os.remove">>

\* C6: in download_recording (not dry-run), when the target file exists,
\* overwrite is not requested and the validation result has validity = false,
\* the existing file is removed without prompting the user and the operation
\* continues toward re-download.
C6_InvalidRemoved ==
    (Validated /\ ~validation[1].is_valid)
        => /\ ~args.dry_run /\ ~args.overwrite /\ file0 # None
           /\ ~Has("input") /\ response = None
           /\ Has("os.remove")
           /\ First("os.remove") = (IF validation[1].probed THEN 3 ELSE 2)
           /\ Proceeds
           /\ pc = "playlist" => file = None

C6_Witness ==
    /\ Validated /\ ~validation[1].is_valid
    /\ validation[1].reason = "Cannot determine video duration (possibly corrupted)"
    /\ pc = "playlist" /\ file = None /\ file0 # None

\* C7: in download_recording (not dry-run), when the target file exists,
\* overwrite is not requested and the existing file's deviation from the
\* expected duration is > 0.50, the existing file is removed and the operation
\* continues toward re-download, and the user is never prompted.
C7_IncompleteRemoved ==
    (Validated /\ validation[1].deviation # None /\ Dev.num * 2 > Dev.den)
        => /\ ~args.dry_run /\ ~args.overwrite /\ file0 # None
           /\ ~Has("input") /\ response = None
           /\ Has("os.remove") /\ First("os.remove") = 3
           /\ Proceeds
           /\ pc = "playlist" => file = None

C7_Witness ==
    /\ Validated /\ validation[1].deviation # None
    /\ Dev.num * 2 > Dev.den /\ Dev.num <= Dev.den
    /\ pc = "playlist" /\ file = None /\ file0 # None
    /\ outcome = "removed incomplete file"

\* C8: apis.delete_recording is invoked only if, earlier in the same
\* execution, ffmpeg returned exit status zero and the post-download
\* validation of the new file (against the expected duration, tolerance 0.10)
\* returned validity = true, and only if delete_originals_after_downloading
\* is set; never on the keep, dry-run, ffmpeg-failure or validation-failure
\* paths.
C8_RemoteDeletion ==
    Has("delete_recording")
        => /\ args.delete_originals_after_downloading /\ ~args.dry_run
           /\ status = Some(0)
           /\ post # None /\ ~post[1].result.raised /\ post[1].result.is_valid
           /\ post[1].expected_duration = expected_duration
           /\ post[1].duration_tolerance = Frac(1, 10)
           /\ Count("delete_recording") = 1
           /\ Has("ffmpeg") /\ Has("validate_video_file")
           /\ First("ffmpeg") < First("validate_video_file")
           /\ First("validate_video_file") < First("delete_recording")
           /\ outcome = "downloaded and validated"
           /\ file # None

C8_Witness ==
    /\ Has("delete_recording")
    /\ pc = "returned"
    /\ file0 # None /\ file # None

\* C9: after ffmpeg returns exit status zero the new file is validated
\* against the same expected duration; if that validation returns
\* validity = false the file is deleted, so on return no file that failed the
\* post-download validation remains at the target path.
C9_NoInvalidFileLeft ==
    (Finished /\ status = Some(0))
        => /\ post # None
           /\ post[1].expected_duration = expected_duration
           /\ (~post[1].result.raised /\ ~post[1].result.is_valid) => file = None
           /\ (pc = "returned" /\ file # None) => post[1].result.is_valid

C9_Witness ==
    /\ pc = "returned" /\ status = Some(0)
    /\ post # None /\ post[1].result.reason = "Duration mismatch"
    /\ file = None
    /\ trace[Len(trace)] = "os.remove"

\* C10: when ffmpeg returns a non-zero exit status, any file at the target
\* path is deleted (a missing file causes no error), no validation and no
\* remote deletion take place, and ffmpeg is invoked at most once per
\* execution.
C10_TranscodeFailure ==
    /\ Count("ffmpeg") <= 1
    /\ (Finished /\ status # None /\ status[1] # 0)
          => /\ pc = "returned"
             /\ file = None
             /\ post = None /\ ~Has("validate_video_file")
             /\ Has("get_video_duration") => First("get_video_duration") < First("ffmpeg")
             /\ ~Has("delete_recording")
             /\ trace[Len(trace)] \in {"ffmpeg", "os.remove"}

C10_Witness ==
    /\ pc = "returned" /\ status = Some(1)
    /\ file = None
    /\ trace[Len(trace)] = "os.remove" /\ trace[Len(trace) - 1] = "ffmpeg"

----------------------------------------------------------------------------
(* Properties of validation.py, continued (checked under SpecValidate) *)

\* C11: for a path that does not exist both validation entry points return
\* validity = false with reason "File does not exist", with actual duration
\* and deviation absent, and without the size check or the duration prober.
C11_MissingFile ==
    vin.file = None
        => /\ vSimple # None
                => /\ ~vSimple[1].raised /\ ~vSimple[1].is_valid
                   /\ vSimple[1].reason = "File does not exist"
                   /\ ~vSimple[1].sized /\ ~vSimple[1].probed
           /\ vDetailed # None
                => /\ ~vDetailed[1].raised /\ ~vDetailed[1].is_valid
                   /\ vDetailed[1].reason = "File does not exist"
                   /\ vDetailed[1].actual_duration = None
                   /\ vDetailed[1].deviation = None
                   /\ ~vDetailed[1].sized /\ ~vDetailed[1].probed

C11_Witness ==
    /\ vin.file = None /\ BothCalled
    /\ vin.run \in DurationRuns
    /\ vin.expected # None /\ vin.expected[1] > 0
    /\ vDetailed[1].expected_duration = vin.expected

\* C12: an existing file of fewer than 1,048,576 bytes is invalid with a
\* too-small reason whatever ffprobe would print (the prober is not
\* consulted); a file of exactly 1,048,576 bytes passes the size check.
C12_SmallFile ==
    vin.file # None
        => /\ (vSimple # None /\ vin.file[1].size < 1048576)
                => /\ ~vSimple[1].raised /\ ~vSimple[1].is_valid
                   /\ vSimple[1].reason = "File too small"
                   /\ vSimple[1].sized /\ ~vSimple[1].probed
           /\ (vDetailed # None /\ vin.file[1].size < 1048576)
                => /\ ~vDetailed[1].raised /\ ~vDetailed[1].is_valid
                   /\ vDetailed[1].reason = "File too small"
                   /\ vDetailed[1].actual_duration = None
                   /\ vDetailed[1].deviation = None
                   /\ vDetailed[1].sized /\ ~vDetailed[1].probed
           /\ (vSimple # None /\ vin.file[1].size = 1048576)
                => vSimple[1].reason # "File too small" /\ vSimple[1].probed
           /\ (vDetailed # None /\ vin.file[1].size = 1048576)
                => vDetailed[1].reason # "File too small" /\ vDetailed[1].probed

C12_Witness ==
    /\ BothCalled
    /\ vin.file # None /\ vin.file[1].size = 1048575
    /\ vin.run \in DurationRuns /\ vin.expected = Some(vin.run.stdout.val)
    /\ ~vSimple[1].is_valid /\ ~vDetailed[1].is_valid

\* The ffprobe runs from which no duration comes: a timeout, a missing tool,
\* a non-zero exit, output that is not JSON, or an object without a usable
\* format.duration string.
UnknownRun(run) ==
    \/ run.kind \in {"timeout", "missing"}
    \/ run.kind = "exit" /\ run.returncode # 0
    \/ /\ run.kind = "exit" /\ run.returncode = 0
       /\ \/ run.stdout.json = "invalid"
          \/ run.stdout.json = "object" /\ run.stdout.format = "absent"
          \/ /\ run.stdout.json = "object" /\ run.stdout.format = "object"
             /\ run.stdout.duration \in {"absent", "empty", "text"}

\* C13: for an existing file of at least 1,048,576 bytes whose duration the
\* prober cannot determine, validation returns validity = false with reason
\* "Cannot determine video duration (possibly corrupted)", whatever the
\* expected duration and the tolerance, with the deviation absent.
C13_UnknownDuration ==
    (vin.file # None /\ vin.file[1].size >= 1048576 /\ UnknownRun(vin.run))
        => /\ vSimple # None
                => /\ ~vSimple[1].raised /\ ~vSimple[1].is_valid
                   /\ vSimple[1].reason
                        = "Cannot determine video duration (possibly corrupted)"
           /\ vDetailed # None
                => /\ ~vDetailed[1].raised /\ ~vDetailed[1].is_valid
                   /\ vDetailed[1].reason
                        = "Cannot determine video duration (possibly corrupted)"
                   /\ vDetailed[1].actual_duration = None
                   /\ vDetailed[1].deviation = None

C13_Witness ==
    /\ BothCalled
    /\ vin.file # None /\ vin.file[1].size >= 1048576
    /\ vin.run.kind = "timeout"
    /\ vin.expected # None /\ vin.expected[1] > 0
    /\ ~vSimple[1].is_valid /\ ~vDetailed[1].is_valid

NoExpected == vin.expected = None \/ vin.expected[1] <= 0
FileAdequate == vin.file # None /\ vin.file[1].size >= 1048576

\* C14: when expected_duration is absent or <= 0, validity is true exactly
\* when the file exists, has at least 1,048,576 bytes and has a determinable
\* duration, whatever the duration and the tolerance are, and the detailed
\* result has no deviation; a deviation is present only when the actual
\* duration is known and the expected duration is > 0.
C14_NoExpectedDuration ==
    /\ (vSimple # None /\ NoExpected /\ ~vSimple[1].raised)
          => (vSimple[1].is_valid <=> (FileAdequate /\ vin.run \in DurationRuns))
    /\ (vDetailed # None /\ NoExpected /\ ~vDetailed[1].raised)
          => /\ vDetailed[1].is_valid <=> (FileAdequate /\ vin.run \in DurationRuns)
             /\ vDetailed[1].deviation = None
    /\ (vDetailed # None /\ vDetailed[1].deviation # None)
          => /\ vDetailed[1].actual_duration # None
             /\ vin.expected # None /\ vin.expected[1] > 0

C14_Witness ==
    /\ BothCalled
    /\ vin.expected = Some(0)
    /\ vin.tolerance.num < 0
    /\ vSimple[1].is_valid /\ vDetailed[1].is_valid
    /\ vDetailed[1].actual_duration # None /\ vDetailed[1].deviation = None

\* C15: get_video_duration does not raise for an ordinary tool failure: when
\* ffprobe times out, is not installed or exits with a non-zero status, it
\* returns None.
C15_ToolFailureIsUnknown ==
    (/\ vProbe # None
     /\ \/ vin.run.kind \in {"timeout", "missing"}
        \/ vin.run.kind = "exit" /\ vin.run.returncode # 0)
        => ~vProbe[1].raised /\ vProbe[1].value = None

C15_Witness ==
    /\ vProbe # None
    /\ vin.run.kind = "exit" /\ vin.run.returncode # 0
    /\ vin.run.stdout.duration = "numeral"
    /\ vProbe[1].value = None

\* C16: for every output of ffprobe with exit status zero from which no
\* duration can be extracted (not JSON, JSON that is not an object or whose
\* format entry is not an object, no format.duration, a format.duration that
\* is not a parsable number) get_video_duration returns None and does not
\* raise.
C16_MalformedOutputIsUnknown ==
    (/\ vProbe # None
     /\ vin.run.kind = "exit" /\ vin.run.returncode = 0
     /\ \/ vin.run.stdout.json # "object"
        \/ vin.run.stdout.format # "object"
        \/ vin.run.stdout.duration \in {"absent", "empty", "text"})
        => ~vProbe[1].raised /\ vProbe[1].value = None

\* C17: every duration get_video_duration returns, other than None, is a
\* strictly positive number of seconds.
C17_KnownDurationPositive ==
    (vProbe # None /\ ~vProbe[1].raised /\ vProbe[1].value # None)
        => vProbe[1].value[1] > 0

----------------------------------------------------------------------------
(* Properties of download_recording, continued (checked under Spec) *)

\* C19: whenever download_recording removes a pre-existing target file for
\* re-download, ffmpeg is invoked later in the same execution, before it
\* returns: the existing file is never deleted without a re-download being
\* attempted.
C19_RemovalThenFfmpeg ==
    (Finished /\ file0 # None /\ Has("os.remove")) => Has("ffmpeg")

\* C20: with dry_run set download_recording changes nothing: whatever the
\* target file and the other flags are, it never removes the file, never
\* validates or prompts, never runs ffmpeg and never deletes the remote
\* recording.
C20_DryRunChangesNothing ==
    args.dry_run
        => /\ file = file0
           /\ trace = <<>>
           /\ validation = None /\ response = None
           /\ status = None /\ post = None
           /\ pc \in {"start", "dry_run", "returned"}
           /\ outcome \in {"", "no recordings database", "recording not found",
                            "playlist failed", "no title", "dry run"}

C20_Witness ==
    /\ args.dry_run /\ args.overwrite /\ args.delete_originals_after_downloading
    /\ file0 # None /\ file0[1].size < 1048576
    /\ pc = "returned" /\ outcome = "dry run"
    /\ file = file0

----------------------------------------------------------------------------
(* Properties of the uploader (checked under SpecUpload) *)

InList(x, list) == \E i \in DOMAIN list : list[i] = x

\* C18: over any sequence of upload_directory and upload_newest runs sharing
\* one ledger, a video file whose relative path is already in the ledger when
\* a run reaches it is reported as skipped, in no other list, and upload_file
\* is not called for it.
C18_LedgerSkips ==
    \A i \in DOMAIN up_log :
        up_log[i].in_ledger
            => /\ ~up_log[i].called
               /\ InList(up_log[i].path, up_run.results.skipped)
               /\ ~InList(up_log[i].path, up_run.results.uploaded)
               /\ ~InList(up_log[i].path, up_run.results.failed)

\* A real run skips a file whose path is in the ledger and uploads another.
C18_Witness ==
    /\ ~up_run.dry_run
    /\ \E i \in DOMAIN up_log :
          /\ up_log[i].in_ledger
          /\ InList(up_log[i].path, up_run.results.skipped)
    /\ \E j \in DOMAIN up_log : up_log[j].ok

\* The ledger a run consults: what the database file holds until an uploader
\* is constructed, self.uploaded_files from then on.
Ledger == IF up_pc = "none" THEN load_upload_db(db) ELSE uploaded_files

Occurrences(x, list) == Cardinality({i \in DOMAIN list : list[i] = x})

\* This step considered a file: it appended one entry to the run's log.
Considered == Len(up_log') = Len(up_log) + 1

\* This step is the one in which upload_file returned success for rel.
JustSucceeded(rel) ==
    /\ Considered
    /\ ~up_run.dry_run
    /\ up_log'[Len(up_log')].path = rel
    /\ up_log'[Len(up_log')].called
    /\ up_log'[Len(up_log')].ok

LedgerGrows == Ledger \subseteq Ledger'

AddedOnlyAfterSuccess == \A rel \in Ledger' \ Ledger : JustSucceeded(rel)

\* A failed upload and a dry run leave the ledger and the database file alone.
NothingOnFailure ==
    (Considered /\ ~up_log'[Len(up_log')].ok)
        => /\ uploaded_files' = uploaded_files
           /\ db' = db

\* The database file is written only in a step where an upload succeeded.
PersistedOnlyAfterSuccess == db' # db => \E rel \in RelPaths : JustSucceeded(rel)

\* Every file the run has considered is in exactly one of the three lists,
\* and the lists hold nothing else.
ExactlyOneList ==
    /\ \A i \in DOMAIN up_log :
          Occurrences(up_log[i].path, up_run.results.uploaded)
              + Occurrences(up_log[i].path, up_run.results.skipped)
              + Occurrences(up_log[i].path, up_run.results.failed) = 1
    /\ Len(up_run.results.uploaded) + Len(up_run.results.skipped)
          + Len(up_run.results.failed) = Len(up_log)

\* A file that is not in the ledger when a real run reaches it is sent, so a
\* file whose upload failed is sent again by the next run that considers it.
AttemptedAgain ==
    \A i \in DOMAIN up_log :
        /\ (~up_log[i].in_ledger /\ ~up_run.dry_run) => up_log[i].called
        /\ (up_log[i].called /\ ~up_log[i].ok) => up_log[i].path \notin uploaded_files

\* C21: the upload ledger only grows, a path enters it only in the step in
\* which upload_file returned success for that file, a failed upload and a
\* dry run neither add nor persist anything so that the file is attempted
\* again, and every file a run considers is reported in exactly one of the
\* uploaded, skipped and failed lists.
C21_LedgerOnlyGrows ==
    /\ [][LedgerGrows /\ AddedOnlyAfterSuccess /\ NothingOnFailure
             /\ PersistedOnlyAfterSuccess]_vars
    /\ [](ExactlyOneList /\ AttemptedAgain)

====
